---- MODULE Spec2Model ----
(***************************************************************************)
(* A model of pred_app/model.py: the cross-validated training loop         *)
(* (build_model), the metric aggregation (build_metric_table), the feature *)
(* scoring (feature_scoring) and the main pipeline that chains them.       *)
(*                                                                         *)
(* Numbers.  The metrics are IEEE-754 binary64 values (np.float64).  They  *)
(* are modelled bit for bit: a non-negative double is a record             *)
(* [m |-> significand, e |-> exponent] of value m * 2^e with               *)
(* 2^52 <= m < 2^53 (zero is [m |-> <<>>, e |-> 0]); the significand is a  *)
(* natural number written as a little-endian sequence of 16-bit limbs, and *)
(* every operation rounds to nearest, ties to even, as the hardware does.  *)
(***************************************************************************)
EXTENDS Integers, Sequences, FiniteSets

VARIABLES
    pc,            \* where the run stands
    cv_count,      \* build_model's fold count
    i,             \* build_model's loop counter
    metrics_list,  \* build_model's list of fold entries
    x_train,       \* the rows of the current split's training part
    x_test,        \* the rows held out by the current split, in order
    y_train,       \* the labels of x_train, by row
    y_test,        \* the labels of x_test, by position
    preds,         \* the model's class probabilities for x_test
    outcomes,      \* the arg-max labels of preds
    err,           \* the exception that ended the run, or "none"
    ret,           \* what build_model returned to main
    metric_table,  \* main's metric_table
    scores_table,  \* main's scores_table
    db,            \* the database: the rows of each table
    files          \* the image files written: what each one plots

vars == << pc, cv_count, i, metrics_list, x_train, x_test, y_train, y_test,
           preds, outcomes, err, ret, metric_table, scores_table, db, files >>

----------------------------------------------------------------------------
(* Natural numbers of any size: little-endian sequences of limbs, without  *)
(* high zero limbs; <<>> is zero.                                          *)

Base == 2^16

RECURSIVE BNorm(_)
BNorm(a) ==
    IF a = <<>> THEN <<>>
    ELSE IF a[Len(a)] = 0 THEN BNorm(SubSeq(a, 1, Len(a) - 1))
    ELSE a

RECURSIVE BFromInt(_)
BFromInt(n) == IF n = 0 THEN <<>> ELSE <<n % Base>> \o BFromInt(n \div Base)

RECURSIVE BAddC(_, _, _)
BAddC(a, b, c) ==
    IF a = <<>> /\ b = <<>> THEN (IF c = 0 THEN <<>> ELSE <<c>>)
    ELSE LET x == (IF a = <<>> THEN 0 ELSE Head(a))
                + (IF b = <<>> THEN 0 ELSE Head(b)) + c
         IN  <<x % Base>> \o BAddC(IF a = <<>> THEN <<>> ELSE Tail(a),
                                   IF b = <<>> THEN <<>> ELSE Tail(b),
                                   x \div Base)

BAdd(a, b) == BAddC(a, b, 0)

RECURSIVE BSubC(_, _, _)
BSubC(a, b, c) ==
    IF a = <<>> THEN <<>>
    ELSE LET x == Head(a) - (IF b = <<>> THEN 0 ELSE Head(b)) - c
         IN  <<x % Base>> \o BSubC(Tail(a),
                                   IF b = <<>> THEN <<>> ELSE Tail(b),
                                   IF x < 0 THEN 1 ELSE 0)

\* a - b, for a >= b
BSub(a, b) == BNorm(BSubC(a, b, 0))

RECURSIVE BCmpFrom(_, _, _)
BCmpFrom(a, b, k) ==
    IF k = 0 THEN 0
    ELSE IF a[k] > b[k] THEN 1
    ELSE IF a[k] < b[k] THEN -1
    ELSE BCmpFrom(a, b, k - 1)

\* -1, 0 or 1 as a < b, a = b or a > b
BCmp(a, b) ==
    IF Len(a) > Len(b) THEN 1
    ELSE IF Len(a) < Len(b) THEN -1
    ELSE BCmpFrom(a, b, Len(a))

RECURSIVE BMulC(_, _, _)
BMulC(a, c, carry) ==
    IF a = <<>> THEN (IF carry = 0 THEN <<>> ELSE <<carry>>)
    ELSE LET x == Head(a) * c + carry
         IN  <<x % Base>> \o BMulC(Tail(a), c, x \div Base)

\* a * c, for 0 <= c < 2^15
BMulSmall(a, c) == IF c = 0 THEN <<>> ELSE BMulC(a, c, 0)

RECURSIVE BDivRec(_, _)
BDivRec(a, d) ==
    IF a = <<>> THEN [q |-> <<>>, r |-> 0]
    ELSE LET hi  == BDivRec(Tail(a), d)
             cur == hi.r * Base + Head(a)
         IN  [q |-> <<cur \div d>> \o hi.q, r |-> cur % d]

\* quotient and remainder of a by d, for 0 < d <= 2^15
BDivSmall(a, d) == LET x == BDivRec(a, d) IN [q |-> BNorm(x.q), r |-> x.r]

RECURSIVE BShl(_, _)
BShl(a, s) ==
    IF a = <<>> \/ s = 0 THEN a
    ELSE IF s >= 16 THEN <<0>> \o BShl(a, s - 16)
    ELSE BMulSmall(a, 2^s)

RECURSIVE BShr(_, _)
BShr(a, s) ==
    IF a = <<>> \/ s = 0 THEN a
    ELSE IF s >= 16 THEN BShr(Tail(a), s - 16)
    ELSE BDivSmall(a, 2^s).q

RECURSIVE IntBitLen(_)
IntBitLen(n) == IF n = 0 THEN 0 ELSE 1 + IntBitLen(n \div 2)

BitLen(a) == IF a = <<>> THEN 0 ELSE 16 * (Len(a) - 1) + IntBitLen(a[Len(a)])

----------------------------------------------------------------------------
(* binary64 arithmetic on non-negative values                              *)

MantBits == 53

FZero == [m |-> <<>>, e |-> 0]

\* the double nearest to n * 2^e (ties to even); n a natural number
RoundToDouble(n, e) ==
    LET len == BitLen(n) IN
    IF n = <<>> THEN FZero
    ELSE IF len <= MantBits
         THEN [m |-> BShl(n, MantBits - len), e |-> e - (MantBits - len)]
    ELSE LET s    == len - MantBits
             q    == BShr(n, s)
             r    == BSub(n, BShl(q, s))
             c    == BCmp(r, BShl(<<1>>, s - 1))
             up   == c = 1 \/ (c = 0 /\ Head(q) % 2 = 1)
             q2   == IF up THEN BAdd(q, <<1>>) ELSE q
         IN  IF BitLen(q2) > MantBits
             THEN [m |-> BShr(q2, 1), e |-> e + s + 1]
             ELSE [m |-> q2, e |-> e + s]

FFromInt(k) == RoundToDouble(BFromInt(k), 0)

\* x + y
FAdd(x, y) ==
    IF x.m = <<>> THEN y
    ELSE IF y.m = <<>> THEN x
    ELSE LET e == IF x.e < y.e THEN x.e ELSE y.e
         IN  RoundToDouble(BAdd(BShl(x.m, x.e - e), BShl(y.m, y.e - e)), e)

\* x * c, c an integer with 0 <= c < 2^15
FMulInt(x, c) == RoundToDouble(BMulSmall(x.m, c), x.e)

\* x / d, d an integer with 0 < d < 2^14.  The quotient is taken with 17
\* extra bits, the last of which is set when the division is inexact, so
\* that rounding it rounds the exact quotient.
FDivInt(x, d) ==
    IF x.m = <<>> THEN FZero
    ELSE LET qr == BDivSmall(<<0>> \o x.m, d)
             q2 == BAdd(BMulSmall(qr.q, 2), IF qr.r = 0 THEN <<>> ELSE <<1>>)
         IN  RoundToDouble(q2, x.e - 17)

\* the double nearest to a / b, a and b integers, a >= 0 < b < 2^14
FRatio(a, b) == FDivInt(FFromInt(a), b)

\* -1, 0 or 1 as x < y, x = y or x > y
FCmp(x, y) ==
    IF x.m = <<>> THEN (IF y.m = <<>> THEN 0 ELSE -1)
    ELSE IF y.m = <<>> THEN 1
    ELSE IF x.e > y.e THEN 1
    ELSE IF x.e < y.e THEN -1
    ELSE BCmp(x.m, y.m)

FLe(x, y) == FCmp(x, y) <= 0

----------------------------------------------------------------------------
(* The data.  build_model receives the training frame and the label vector *)
(* (main, lines 293-316).  Rows are 1..NRows, the columns are the first    *)
(* NFeat of the feature names main selects, the labels are 0 and 1.        *)

NRows == 7
NFeat == 3
MaxFolds == 2
FoldTest == 3
AggTest == 3
AggFolds == 3

FeatureNames ==
    << "A_Massey", "H_Massey", "H_NET_RATING", "A_NET_RATING", "A_PIE", "H_PIE",
       "A_TS_PCT", "H_TS_PCT", "A_FGM", "H_FGM", "A_DREB", "H_DREB" >>

Rows == 1..NRows
Columns == 1..NFeat

\* the frame's value in row r, column f: small non-zero integers (main drops
\* the rows whose A_Massey is 0), the third column constant
training_data == [r \in Rows |-> [f \in Columns |-> 1 + ((r * f) % 3)]]

\* the Outcome column
target == [r \in Rows |-> r % 2]

\* test_size=0.15: train_test_split holds out ceil(0.15 * n) rows
TestPct == 15
TestSize(n) == (TestPct * n + 99) \div 100

Range(s) == {s[k] : k \in DOMAIN s}

\* the held-out rows train_test_split can draw, in the order it draws them
TestSeqs ==
    {t \in [1..TestSize(NRows) -> Rows] : \A a, b \in DOMAIN t : a # b => t[a] # t[b]}

\* x_train of a split: the rows not held out
SplitTrain_stale(test) == IF i = 0 THEN Rows \ Range(test) ELSE x_train
SplitTrain(test) == Rows \ Range(test)

\* what predict returns for a row under multi:softprob with num_class=2:
\* the pair of class probabilities, here in tenths
ProbRows == { <<8, 2>>, <<5, 5>>, <<2, 8>> }

\* np.argmax: the first index of the maximum
ArgMax(pred) == IF pred[2] > pred[1] THEN 1 ELSE 0

\* lines 51, 63-64: outcomes starts empty in every iteration and gets the
\* arg-max class of each prediction
FoldOutcomes(p) == [k \in DOMAIN p |-> ArgMax(p[k])]

----------------------------------------------------------------------------
(* The metrics of one fold (lines 66-76)                                   *)

Count(actual, prediction, a, b) ==
    Cardinality({k \in DOMAIN actual : actual[k] = a /\ prediction[k] = b})

\* pd.crosstab(index=actual, columns=prediction): a column per predicted
\* label that occurs, a row per actual label that occurs; crosstab[c][r]
Crosstab(actual, prediction) ==
    [c \in Range(prediction) |-> [r \in Range(actual) |->
        Count(actual, prediction, r, c)]]

\* crosstab[c][r] raises KeyError when column c or row r is missing
HasCell(ct, c, r) == c \in DOMAIN ct /\ r \in DOMAIN ct[c]

\* a / b rounded to the nearest integer, ties to even (np.round)
RoundDiv(a, b) ==
    LET q == a \div b
        r == a % b
    IN  IF 2 * r > b \/ (2 * r = b /\ q % 2 = 1) THEN q + 1 ELSE q

\* round(x, 4) for x = num / den: the double nearest to k / 10^4
Round4(num, den) == FRatio(RoundDiv(10000 * num, den), 10000)

\* round(x, 4) * 100
Percent_twice(num, den) == FMulInt(FMulInt(Round4(num, den), 100), 100)
Percent(num, den) == FMulInt(Round4(num, den), 100)

\* precision_score: tp / (tp + fp), 0.0 when nothing is predicted positive
PrecisionScore(y, o) ==
    LET tp == Count(y, o, 1, 1)
        fp == Count(y, o, 0, 1)
    IN  IF tp + fp = 0 THEN Percent(0, 1) ELSE Percent(tp, tp + fp)

\* recall_score: tp / (tp + fn)
RecallScore(y, o) ==
    LET tp == Count(y, o, 1, 1)
        fn == Count(y, o, 1, 0)
    IN  IF tp + fn = 0 THEN Percent(0, 1) ELSE Percent(tp, tp + fn)

\* accuracy_score: the share of positions where the labels agree
AccuracyScore(y, o) ==
    Percent(Count(y, o, 0, 0) + Count(y, o, 1, 1), Len(y))

\* roc_auc_score of 0/1 scores: the curve is (0,0), (fpr,tpr), (1,1), its
\* area (tpr + 1 - fpr) / 2
RocAucScore(y, o) ==
    LET tp  == Count(y, o, 1, 1)
        tn  == Count(y, o, 0, 0)
        pos == tp + Count(y, o, 1, 0)
        neg == tn + Count(y, o, 0, 1)
    IN  Percent(tp * neg + tn * pos, 2 * pos * neg)

\* -ln(p) in units of 10^-6 for p = t / 10; log_loss clips p to
\* [eps, 1 - eps] with eps = 1e-15, so t = 0 gives -ln(1e-15)
NegLn ==
    [t \in 0..10 |->
        CASE t = 0 -> 34538776 [] t = 1 -> 2302585 [] t = 2 -> 1609438
          [] t = 3 -> 1203973  [] t = 4 -> 916291  [] t = 5 -> 693147
          [] t = 6 -> 510826   [] t = 7 -> 356675  [] t = 8 -> 223144
          [] t = 9 -> 105361   [] t = 10 -> 0]

RECURSIVE SumSeq(_)
SumSeq(s) == IF s = <<>> THEN 0 ELSE Head(s) + SumSeq(Tail(s))

\* round(log_loss(y_true, y_pred), 4): y_pred[k] is the probability (in
\* tenths) of class 1; the loss is the mean of -ln of the probability given
\* to the true class
LogLoss(y_true, y_pred) ==
    LET term(k) == NegLn[IF y_true[k] = 1 THEN y_pred[k] ELSE 10 - y_pred[k]]
    IN  FRatio(RoundDiv(SumSeq([k \in DOMAIN y_true |-> term(k)]),
                        100 * Len(y_true)), 10000)

\* line 71 hands log_loss the arg-max labels: label 1 is probability 1.0
LogLossInput(p, o) == [k \in DOMAIN o |-> 10 * o[k]]

\* lines 74-75
Correct(ct) == ct[0][0] + ct[1][1]
Incorrect_oneCell(ct) == ct[0][1]
Incorrect(ct) == ct[0][1] + ct[1][0]

\* lines 77-79: the entry of a fold, in this order
FoldEntry(y, p, o) ==
    LET ct == Crosstab(y, o)
    IN  << PrecisionScore(y, o), RecallScore(y, o), AccuracyScore(y, o),
           LogLoss(y, LogLossInput(p, o)), RocAucScore(y, o),
           Correct(ct), Incorrect(ct), Len(o) >>

\* what stops a fold: log_loss and roc_auc_score raise ValueError when the
\* held-out labels hold one class only (line 71), the crosstab lookups raise
\* KeyError when a column or a row is missing (line 74)
FoldError(y, o) ==
    LET ct == Crosstab(y, o)
    IN  IF Cardinality(Range(y)) < 2 THEN "ValueError"
        ELSE IF ~(HasCell(ct, 0, 0) /\ HasCell(ct, 1, 1)
                  /\ HasCell(ct, 0, 1) /\ HasCell(ct, 1, 0)) THEN "KeyError"
        ELSE "none"

\* line 80
AppendEntry_reset(list, arr) == <<arr>>
AppendEntry(list, arr) == Append(list, arr)

----------------------------------------------------------------------------
(* build_metric_table (lines 93-153)                                       *)

MetricNames ==
    << "Precision", "Recall", "Accuracy", "Logloss", "ROC-AUC", "Correct",
       "Incorrect", "Games Tested" >>

\* a column of the frame made of the entries: the counts are integers, which
\* every aggregate turns into doubles
ColumnOf(metrics_data, c) ==
    [k \in DOMAIN metrics_data |->
        IF c >= 6 THEN FFromInt(metrics_data[k][c]) ELSE metrics_data[k][c]]

RECURSIVE FSum(_, _)
FSum(col, k) == IF k = 0 THEN FZero ELSE FAdd(FSum(col, k - 1), col[k])

RECURSIVE FMin(_, _)
FMin(col, k) ==
    IF k = 1 THEN col[1]
    ELSE LET m == FMin(col, k - 1) IN IF FCmp(col[k], m) < 0 THEN col[k] ELSE m

RECURSIVE FMax(_, _)
FMax(col, k) ==
    IF k = 1 THEN col[1]
    ELSE LET m == FMax(col, k - 1) IN IF FCmp(col[k], m) > 0 THEN col[k] ELSE m

\* agg(np.mean): the sum, accumulated in order, divided by the count
ColMean_noDiv(col) == FSum(col, Len(col))
ColMean(col) == FDivInt(FSum(col, Len(col)), Len(col))

ColMin(col) == FMin(col, Len(col))
ColMax(col) == FMax(col, Len(col))

\* agg(np.std), the sample standard deviation (NaN for a single fold): it
\* needs a square root and is kept as a term over the column
ColStd(col) == [ddof |-> 1, of |-> col]

\* lines 122-148: a row per metric
MetricTable(metrics_data) ==
    [c \in 1..8 |->
        LET col == ColumnOf(metrics_data, c)
        IN  [Metric |-> MetricNames[c], Mean |-> ColMean(col),
             Min |-> ColMin(col), Max |-> ColMax(col), Std |-> ColStd(col)]]

\* to_sql(name, engine, if_exists="replace"): the table is dropped and
\* written anew
ToSql_append(d, name, rows) == [d EXCEPT ![name] = d[name] \o rows]
ToSql(d, name, rows) == [d EXCEPT ![name] = rows]

----------------------------------------------------------------------------
(* feature_scoring (lines 157-172)                                         *)

RECURSIVE SumOver(_, _)
SumOver(S, g) ==
    IF S = {} THEN 0
    ELSE LET r == CHOOSE r \in S : TRUE IN g[r] + SumOver(S \ {r}, g)

\* f_classif for one column: the one-way ANOVA F-statistic of the column
\* against the labels, as an exact fraction num / den.  It is NaN (0/0) for
\* a column that is constant or when one class only is present, and
\* infinite when the column is constant within each class but not overall.
\* X holds more than two rows.
FStat(X, y, f) ==
    LET n  == Cardinality(X)
        c0 == {r \in X : y[r] = 0}
        c1 == {r \in X : y[r] = 1}
        n0 == Cardinality(c0)
        n1 == Cardinality(c1)
        v  == [r \in X |-> training_data[r][f]]
        s0 == SumOver(c0, v)
        s1 == SumOver(c1, v)
        sq == SumOver(X, [r \in X |-> v[r] * v[r]])
        \* n * n0 * n1 times the sums of squares between and within classes
        ssb == n * n1 * s0 * s0 + n * n0 * s1 * s1 - n0 * n1 * (s0 + s1) * (s0 + s1)
        ssw == n * n0 * n1 * sq - n * n1 * s0 * s0 - n * n0 * s1 * s1
    IN  IF n0 = 0 \/ n1 = 0 THEN [kind |-> "nan", num |-> 0, den |-> 0]
        ELSE IF ssw = 0 /\ ssb = 0 THEN [kind |-> "nan", num |-> 0, den |-> 0]
        ELSE IF ssw = 0 THEN [kind |-> "inf", num |-> 1, den |-> 0]
        ELSE [kind |-> "num", num |-> ssb * (n - 2), den |-> ssw]

\* a > b for two F-statistics; false when either is NaN
ScoreGt(a, b) ==
    /\ a.kind # "nan" /\ b.kind # "nan"
    /\ \/ a.kind = "inf" /\ b.kind = "num"
       \/ a.kind = "num" /\ b.kind = "num" /\ a.num * b.den > b.num * a.den

\* sort_values(["Specs"], ascending=False): whether a row with score a may
\* stand before a row with score b (NaN goes last, ties stand in any order)
MayPrecede_ascending(a, b) == a.kind = "nan" \/ ~ScoreGt(a, b)
MayPrecede(a, b) == b.kind = "nan" \/ (a.kind # "nan" /\ ~ScoreGt(b, a))

\* lines 164-168: the scores and the column names side by side; the labels
\* given to the two columns are "Specs" for the score, "Score" for the name
ScoreRow(X, y, f) == [Specs |-> FStat(X, y, f), Score |-> FeatureNames[f]]

\* the tables feature_scoring can return
FeatureTables(X, y) ==
    LET perms == {q \in [Columns -> Columns] : \A a, b \in Columns : a # b => q[a] # q[b]}
        good  == {q \in perms : \A a, b \in Columns :
                     a < b => MayPrecede(FStat(X, y, q[a]), FStat(X, y, q[b]))}
    IN  {[k \in Columns |-> ScoreRow(X, y, q[k])] : q \in good}

----------------------------------------------------------------------------
(* The state machine of a run of the script (lines 292-323)                *)

TableNames == {"metric_scores", "feature_scores", "hyper_scores"}

NoTables == [t \in TableNames |-> <<>>]

\* what an earlier run left in the database
EarlierTables ==
    [t \in TableNames |->
        CASE t = "metric_scores" ->
                 MetricTable(<< FoldEntry(<<0, 1>>, << <<8, 2>>, <<2, 8>> >>, <<0, 1>>) >>)
          [] t = "feature_scores" ->
                 << [Specs |-> [kind |-> "num", num |-> 1, den |-> 2], Score |-> "H_PIE"] >>
          [] t = "hyper_scores" -> << [mean_test_score |-> 1] >>]

PriorDbs == {NoTables, EarlierTables}

NoRet == [metrics |-> <<>>, training |-> {}, testing |-> <<>>,
          actuals |-> <<>>, predictions |-> <<>>]

NoFiles == [f \in {"ROC_AUC_Curve.png", "Precision_Recall_Curve.png"} |-> <<>>]

Init ==
    /\ pc = "build_model"
    /\ cv_count \in 1..MaxFolds
    /\ i = 0
    /\ metrics_list = <<>>
    /\ x_train = {} /\ x_test = <<>> /\ y_train = <<>> /\ y_test = <<>>
    /\ preds = <<>> /\ outcomes = <<>>
    /\ err = "none"
    /\ ret = NoRet
    /\ metric_table = <<>> /\ scores_table = <<>>
    /\ db \in PriorDbs
    /\ files = NoFiles

\* an exception nothing catches: the run ends there
Raise_continue(e) == pc' = pc /\ err' = e /\ i' = i + 1 /\ UNCHANGED metrics_list
Raise(e) == pc' = "failed" /\ err' = e /\ UNCHANGED <<i, metrics_list>>

\* one iteration of the loop (lines 49-87) on the split and the predictions
\* it drew
FoldBody(xtr, xte, ytr, yte, p) ==
    LET o == FoldOutcomes(p)
        e == FoldError(yte, o)
    IN  /\ x_train' = xtr /\ x_test' = xte /\ y_train' = ytr /\ y_test' = yte
        /\ preds' = p /\ outcomes' = o
        /\ IF e = "none"
           THEN /\ metrics_list' = AppendEntry(metrics_list, FoldEntry(yte, p, o))
                /\ i' = i + 1
                /\ UNCHANGED <<pc, err>>
           ELSE Raise(e)
        /\ UNCHANGED <<cv_count, ret, metric_table, scores_table, db, files>>

Fold ==
    /\ pc = "build_model" /\ i < cv_count
    /\ \E test \in TestSeqs : \E p \in [DOMAIN test -> ProbRows] :
          LET xtr == SplitTrain(test)
          IN  FoldBody(xtr, test, [r \in xtr |-> target[r]],
                       [k \in DOMAIN test |-> target[test[k]]], p)

\* line 89 and the assignment of line 316
BuildModelReturn ==
    /\ pc = "build_model" /\ i = cv_count
    /\ ret' = [metrics |-> metrics_list, training |-> x_train, testing |-> y_train,
               actuals |-> y_test, predictions |-> outcomes]
    /\ pc' = "build_metric_table"
    /\ UNCHANGED << cv_count, i, metrics_list, x_train, x_test, y_train, y_test,
                    preds, outcomes, err, metric_table, scores_table, db, files >>

\* build_metric_table(metrics_data)
BuildMetricTableCall(metrics_data) ==
    /\ metric_table' = MetricTable(metrics_data)
    /\ db' = ToSql(db, "metric_scores", metric_table')

\* line 317
BuildMetricTable ==
    /\ pc = "build_metric_table"
    /\ BuildMetricTableCall(ret.metrics)
    /\ pc' = "feature_scoring"
    /\ UNCHANGED << cv_count, i, metrics_list, x_train, x_test, y_train, y_test,
                    preds, outcomes, err, ret, scores_table, files >>

\* line 318
FeatureScoring ==
    /\ pc = "feature_scoring"
    /\ \E scores \in FeatureTables(ret.training, ret.testing) :
          /\ scores_table' = scores
          /\ db' = ToSql(db, "feature_scores", scores)
    /\ pc' = "plot_roc_curve"
    /\ UNCHANGED << cv_count, i, metrics_list, x_train, x_test, y_train, y_test,
                    preds, outcomes, err, ret, metric_table, files >>

\* line 319: the curve drawn is a function of the two arguments
PlotRocCurve ==
    /\ pc = "plot_roc_curve"
    /\ files' = [files EXCEPT !["ROC_AUC_Curve.png"] = <<ret.actuals, ret.predictions>>]
    /\ pc' = "plot_precision_recall"
    /\ UNCHANGED << cv_count, i, metrics_list, x_train, x_test, y_train, y_test,
                    preds, outcomes, err, ret, metric_table, scores_table, db >>

\* line 320
PlotPrecisionRecall ==
    /\ pc = "plot_precision_recall"
    /\ files' = [files EXCEPT !["Precision_Recall_Curve.png"] =
                                  <<ret.actuals, ret.predictions>>]
    /\ pc' = "done"
    /\ UNCHANGED << cv_count, i, metrics_list, x_train, x_test, y_train, y_test,
                    preds, outcomes, err, ret, metric_table, scores_table, db >>

Next ==
    \/ Fold
    \/ BuildModelReturn
    \/ BuildMetricTable
    \/ FeatureScoring
    \/ PlotRocCurve
    \/ PlotPrecisionRecall

Spec == Init /\ [][Next]_vars
----------------------------------------------------------------------------
(* One iteration of the loop on its own: the fold body applied to any      *)
(* held-out labels and predictions of up to FoldTest rows (the frame and   *)
(* the split that produced them are left out: x_train and x_test stay      *)
(* empty).                                                                 *)

InitFold ==
    /\ pc = "build_model"
    /\ cv_count = 1
    /\ i = 0
    /\ metrics_list = <<>>
    /\ x_train = {} /\ x_test = <<>> /\ y_train = <<>> /\ y_test = <<>>
    /\ preds = <<>> /\ outcomes = <<>>
    /\ err = "none"
    /\ ret = NoRet
    /\ metric_table = <<>> /\ scores_table = <<>>
    /\ db = NoTables
    /\ files = NoFiles

FoldAny ==
    /\ pc = "build_model" /\ i < cv_count
    /\ \E n \in 1..FoldTest : \E y \in [1..n -> {0, 1}] : \E p \in [1..n -> ProbRows] :
          FoldBody({}, <<>>, <<>>, y, p)

NextFold == FoldAny \/ BuildModelReturn

SpecFold == InitFold /\ [][NextFold]_vars

----------------------------------------------------------------------------
(* build_metric_table on its own: applied, twice in a row, to a metrics    *)
(* list build_model can return.  The list holds up to AggFolds entries of  *)
(* folds that held out AggTest rows; a fold is given by its confusion      *)
(* counts <<tn, fp, fn, tp>>, and the folds of a list are taken in         *)
(* non-decreasing order of their counts.                                   *)

Confusions ==
    {c \in [1..4 -> 0..AggTest] : c[1] + c[2] + c[3] + c[4] = AggTest}

\* held-out labels, predictions and arg-max labels with these counts
ConfActual(c) ==
    [k \in 1..AggTest |-> IF k <= c[1] + c[2] THEN 0 ELSE 1]
ConfOutcomes(c) ==
    [k \in 1..AggTest |->
        IF k <= c[1] THEN 0
        ELSE IF k <= c[1] + c[2] THEN 1
        ELSE IF k <= c[1] + c[2] + c[3] THEN 0 ELSE 1]
ConfPreds(c) ==
    [k \in 1..AggTest |-> IF ConfOutcomes(c)[k] = 1 THEN <<2, 8>> ELSE <<8, 2>>]

\* the folds that end without an error
GoodConfusions == {c \in Confusions : FoldError(ConfActual(c), ConfOutcomes(c)) = "none"}

ConfLe(c, d) ==
    \/ c = d
    \/ \E k \in 1..4 : c[k] < d[k] /\ \A j \in 1..(k - 1) : c[j] = d[j]

\* the lists of n folds of S in non-decreasing order
RECURSIVE AscLists(_, _)
AscLists(n, S) ==
    IF n = 0 THEN {<<>>}
    ELSE UNION {{<<c>> \o l : l \in AscLists(n - 1, {d \in S : ConfLe(c, d)})} : c \in S}

\* the entry build_model appends for a fold with these counts
ConfEntry == [c \in GoodConfusions |->
                 FoldEntry(ConfActual(c), ConfPreds(c), ConfOutcomes(c))]

\* the folds of the lists build_metric_table is applied to
AggInputs == UNION {AscLists(n, GoodConfusions) : n \in 1..AggFolds}

\* the metrics list of these folds
EntriesOf(l) == [k \in DOMAIN l |-> ConfEntry[l[k]]]

InitAgg ==
    /\ pc = "build_metric_table"
    /\ \E l \in AggInputs : metrics_list = EntriesOf(l)
    /\ ret = [NoRet EXCEPT !.metrics = metrics_list]
    /\ cv_count = Len(metrics_list)
    /\ i = Len(metrics_list)
    /\ x_train = {} /\ x_test = <<>> /\ y_train = <<>> /\ y_test = <<>>
    /\ preds = <<>> /\ outcomes = <<>>
    /\ err = "none"
    /\ metric_table = <<>> /\ scores_table = <<>>
    /\ db = EarlierTables
    /\ files = NoFiles

AggFirstCall ==
    /\ pc = "build_metric_table"
    /\ BuildMetricTableCall(ret.metrics)
    /\ pc' = "build_metric_table_again"
    /\ UNCHANGED << cv_count, i, metrics_list, x_train, x_test, y_train, y_test,
                    preds, outcomes, err, ret, scores_table, files >>

AggSecondCall ==
    /\ pc = "build_metric_table_again"
    /\ BuildMetricTableCall(ret.metrics)
    /\ pc' = "done"
    /\ UNCHANGED << cv_count, i, metrics_list, x_train, x_test, y_train, y_test,
                    preds, outcomes, err, ret, scores_table, files >>

NextAgg == AggFirstCall \/ AggSecondCall

SpecAgg == InitAgg /\ [][NextAgg]_vars
----------------------------------------------------------------------------
(* Properties                                                              *)

Last(s) == s[Len(s)]

IsPrefix(s, t) == Len(s) <= Len(t) /\ SubSeq(t, 1, Len(s)) = s

Agree(actual, prediction) ==
    Cardinality({k \in DOMAIN actual : actual[k] = prediction[k]})

Returned == pc \notin {"build_model", "failed"}

\* n1 * 2^e1 <= n2 * 2^e2, exactly
ExactLe(n1, e1, n2, e2) ==
    LET e == IF e1 < e2 THEN e1 ELSE e2
    IN  BCmp(BShl(n1, e1 - e), BShl(n2, e2 - e)) <= 0

\* lo * (1 - 2^-49) <= x <= hi * (1 + 2^-49), exactly
WithinRounding(lo, x, hi) ==
    /\ ExactLe(BSub(BShl(lo.m, 49), lo.m), lo.e, BShl(x.m, 49), x.e)
    /\ ExactLe(BShl(x.m, 49), x.e, BAdd(BShl(hi.m, 49), hi.m), hi.e)

\* C1: when build_model returns, the metrics list holds exactly cv_count
\* entries, one per iteration; each entry has 8 fields in the order
\* precision, recall, accuracy, logloss, roc, correct, incorrect,
\* game_count; and an iteration only appends: the entries already in the
\* list are neither changed nor removed.
C1_MetricsListComplete ==
    /\ [](Returned =>
            /\ Len(ret.metrics) = cv_count
            /\ \A k \in DOMAIN ret.metrics : Len(ret.metrics[k]) = 8)
    /\ [](i >= 1 /\ err = "none" =>
            LET e == Last(metrics_list)
            IN  /\ Len(metrics_list) = i
                /\ e[1] = PrecisionScore(y_test, outcomes)
                /\ e[2] = RecallScore(y_test, outcomes)
                /\ e[3] = AccuracyScore(y_test, outcomes)
                /\ DOMAIN e[4] = {"m", "e"}
                /\ e[5] = RocAucScore(y_test, outcomes)
                /\ e[6] = Agree(y_test, outcomes)
                /\ e[7] = Len(y_test) - Agree(y_test, outcomes)
                /\ e[8] = Len(y_test))
    /\ [][IsPrefix(metrics_list, metrics_list')]_vars

C1_Witness == pc = "done" /\ cv_count = 2 /\ Len(ret.metrics) = 2

\* C2 as stated: in every fold, the folds whose held-out or predicted labels
\* fall in a single class included, the cross-tabulation yields counts with
\* correct + incorrect = game_count.
C2_Original ==
    y_test # <<>> =>
        LET ct == Crosstab(y_test, outcomes)
        IN  /\ HasCell(ct, 0, 0) /\ HasCell(ct, 1, 1)
            /\ HasCell(ct, 0, 1) /\ HasCell(ct, 1, 0)
            /\ Correct(ct) + Incorrect(ct) = Len(outcomes)

\* C2 amended: a fold that ends without an error has both classes among its
\* held-out labels and among its predicted labels, and its entry satisfies
\* correct + incorrect = game_count = the size of the held-out split; a
\* fold whose held-out labels or predicted labels fall in a single class
\* raises and records no counts.
C2_CountsOfCompletedFolds ==
    /\ \A k \in DOMAIN metrics_list :
          /\ metrics_list[k][6] + metrics_list[k][7] = metrics_list[k][8]
          /\ metrics_list[k][8] = Len(y_test)
    /\ y_test # <<>> =>
          /\ err = "none" <=> (Range(y_test) = {0, 1} /\ Range(outcomes) = {0, 1})
          /\ err = "none" <=> Len(metrics_list) = 1

C2_Witness ==
    /\ metrics_list # <<>>
    /\ metrics_list[1][6] = 2 /\ metrics_list[1][7] = 1 /\ metrics_list[1][8] = 3

\* C3: if a step of fold k fails, the run ends there: the fold is not
\* retried, no later fold runs (the loop counter stays at the number of
\* completed folds and nothing moves any more), build_model returns
\* nothing, and no table is written and no plot rendered in that run.
C3_FailureEndsRun ==
    /\ [](err # "none" =>
            /\ pc = "failed"
            /\ i = Len(metrics_list) /\ i < cv_count
            /\ ret = NoRet
            /\ metric_table = <<>> /\ scores_table = <<>>
            /\ db \in PriorDbs
            /\ files = NoFiles)
    /\ [][pc # "failed"]_vars

C3_Witness == pc = "failed" /\ err = "KeyError" /\ i = 1 /\ cv_count = 2

\* C4: what build_model returns besides the metrics list is the split of
\* the last iteration only: training rows, training labels, held-out
\* labels and predicted labels belong to one and the same split, the one
\* the last entry of the metrics list was computed from; feature_scoring
\* gets that training split, both plots get those held-out labels and
\* predictions.
C4_LastFoldData ==
    Returned =>
        /\ i = cv_count
        /\ ret.training = x_train /\ ret.testing = y_train
        /\ ret.actuals = y_test /\ ret.predictions = outcomes
        /\ ret.training = Rows \ Range(x_test)
        /\ ret.testing = [r \in ret.training |-> target[r]]
        /\ ret.actuals = [k \in DOMAIN x_test |-> target[x_test[k]]]
        /\ ret.predictions = [k \in DOMAIN preds |-> ArgMax(preds[k])]
        /\ Last(ret.metrics)[6] = Agree(ret.actuals, ret.predictions)
        /\ scores_table # <<>> => scores_table \in FeatureTables(x_train, y_train)
        /\ \A f \in DOMAIN files : files[f] # <<>> => files[f] = <<y_test, outcomes>>

C4_Witness ==
    /\ pc = "done" /\ cv_count = 2
    /\ files["ROC_AUC_Curve.png"] # <<>> /\ files["Precision_Recall_Curve.png"] # <<>>

\* C5 as stated: in the summary table, Min <= Mean <= Max in every row.
C5_Original ==
    \A c \in DOMAIN metric_table :
        /\ FLe(metric_table[c].Min, metric_table[c].Mean)
        /\ FLe(metric_table[c].Mean, metric_table[c].Max)

\* C5 amended: Min <= Mean <= Max holds up to the rounding of the sum and of
\* the division: Min * (1 - 2^-49) <= Mean <= Max * (1 + 2^-49) in every
\* row; it holds exactly in the rows of the three counts (Correct,
\* Incorrect, Games Tested).
C5_MeanWithinRounding ==
    \A c \in DOMAIN metric_table :
        /\ WithinRounding(metric_table[c].Min, metric_table[c].Mean, metric_table[c].Max)
        /\ c >= 6 => /\ FLe(metric_table[c].Min, metric_table[c].Mean)
                     /\ FLe(metric_table[c].Mean, metric_table[c].Max)

C5_Witness ==
    /\ metric_table # <<>> /\ Len(ret.metrics) = 3
    /\ FCmp(metric_table[3].Min, metric_table[3].Mean) < 0
    /\ FCmp(metric_table[3].Mean, metric_table[3].Max) < 0

\* C6: in every entry build_model produces, precision, recall, accuracy and
\* ROC lie in [0, 100] and the log-loss is not negative.
C6_PercentRange ==
    \A k \in DOMAIN metrics_list :
        /\ \A c \in {1, 2, 3, 5} :
              /\ FLe(FZero, metrics_list[k][c])
              /\ FLe(metrics_list[k][c], FFromInt(100))
        /\ FLe(FZero, metrics_list[k][4])

C6_Witness ==
    /\ metrics_list # <<>>
    /\ FCmp(FZero, metrics_list[1][3]) < 0
    /\ FCmp(metrics_list[1][3], FFromInt(100)) < 0
    /\ FCmp(FZero, metrics_list[1][4]) < 0

\* C7: a second call of build_metric_table on the same metrics list returns
\* the table the first call returned, of 8 rows, and leaves the stored
\* metric_scores table (and the rest of the database) as the first call
\* left it.
C7_SecondCallChangesNothing ==
    [][pc = "build_metric_table_again" =>
          /\ metric_table' = metric_table
          /\ Len(metric_table') = 8
          /\ \A c \in 1..8 : metric_table'[c].Metric = MetricNames[c]
          /\ db' = db
          /\ db'["metric_scores"] = metric_table']_vars

C7_Witness ==
    pc = "done" /\ Len(ret.metrics) = 2 /\ db["metric_scores"] = metric_table

\* C8: a write replaces the table: after build_metric_table the stored
\* metric_scores holds exactly the rows of the new table, after
\* feature_scoring the stored feature_scores holds exactly the rows of the
\* new table, whatever the database held before; the tables of other names
\* are as they were.
C8_ReplaceSemantics ==
    [][/\ pc = "build_metric_table" =>
             /\ db'["metric_scores"] = metric_table'
             /\ \A t \in TableNames \ {"metric_scores"} : db'[t] = db[t]
       /\ pc = "feature_scoring" =>
             /\ db'["feature_scores"] = scores_table'
             /\ \A t \in TableNames \ {"feature_scores"} : db'[t] = db[t]]_vars

C8_Witness ==
    /\ pc = "done"
    /\ db["hyper_scores"] # <<>>
    /\ db["metric_scores"] = metric_table /\ db["feature_scores"] = scores_table

\* C9: the table feature_scoring returns and stores has one row per column
\* of the training frame, every column name in exactly one row, each row
\* with the F-statistic of the column it names, and no row stands before a
\* row of a larger F-statistic.
C9_FeatureTable ==
    scores_table # <<>> =>
        /\ Len(scores_table) = NFeat
        /\ \A f \in Columns :
              Cardinality({k \in DOMAIN scores_table :
                              scores_table[k].Score = FeatureNames[f]}) = 1
        /\ \A k \in DOMAIN scores_table : \A f \in Columns :
              scores_table[k].Score = FeatureNames[f] =>
                  scores_table[k].Specs = FStat(ret.training, ret.testing, f)
        /\ \A a, b \in DOMAIN scores_table :
              a < b => ~ScoreGt(scores_table[b].Specs, scores_table[a].Specs)
        /\ db["feature_scores"] = scores_table

C9_Witness ==
    /\ scores_table # <<>>
    /\ ScoreGt(scores_table[1].Specs, scores_table[2].Specs)
    /\ scores_table[3].Specs.kind = "nan"

\* C10 as stated: the predicted label is the arg-max class of the predicted
\* probabilities, and the log-loss recorded for the fold is the loss of the
\* held-out labels under those probabilities.
C10_Original ==
    metrics_list # <<>> =>
        /\ outcomes = [k \in DOMAIN preds |-> ArgMax(preds[k])]
        /\ Last(metrics_list)[4] = LogLoss(y_test, [k \in DOMAIN preds |-> preds[k][2]])
====
